---- MODULE Spec2Model ----
(***************************************************************************)
(* Model of the session store engine of express-session-mongo              *)
(* (src/src/MongoStoreBase.ts): one MongoStoreBase instance, its lazily    *)
(* created indexes, the collection it writes to, and the asynchronous      *)
(* operations running on it.  Every `await` of the source is a point where *)
(* another operation, the clock or the storage may take a step.  The store  *)
(* specification adds the adapter of src/src/MongoStore.ts: its cleanup     *)
(* timer and its callbacks, with storage calls that may fail.               *)
(***************************************************************************)
EXTENDS Integers, Sequences, FiniteSets, TLC

\* ------------------------------------------------------------------ bounds

\* the clock advances at most MaxTicks times, TickMs milliseconds at a time
MaxTicks == 1
TickMs == 1000
\* the storage fails at most MaxFailures calls
MaxFailures == 1

\* the slots of the operations in progress: two callers at a time (a slot is
\* taken again once its call has returned)
Calls == {1, 2}
\* the slot of the removeExpiredSessions call of the cleanup timer's callback
SweepSlot == 0
Slots == Calls \cup {SweepSlot}
\* the caller of the store specification: one call at a time beside the sweep
StoreCallers == {1}
StoreSlots == StoreCallers \cup {SweepSlot}
\* caller-supplied session ids and payloads
Ids == {"abc", "xyz"}
Payloads == {"d1", "d2"}

\* ------------------------------------------------------- program constants

MsPerSecond == 1000

Null == "null"
NoError == ""
ClientNotDefined == "express-session-mongo: client not defined"
DbNameNotDefined == "express-session-mongo: dbName not defined"
CollectionNotDefined == "express-session-mongo: collection not defined"
\* the rejection of a failed storage call, and what a throwing callback throws
StorageError == "storage error"
CallbackThrew == "callback threw"

SessionIdIdx == "session_id_idx"
SessionIdExpiresIdx == "session_id_expires_idx"
UpdatedAtTtlIdx == "updated_at_ttl_idx"

SidOps == {"get", "destroy"}
WriteOps == {"set", "touch"}
PlainOps == {"all", "length", "clear", "removeExpiredSessions"}
Ops == SidOps \cup WriteOps \cup PlainOps

\* -------------------------------------------------------------------- state

VARIABLES
    config,            \* MongoStoreParams, fixed at construction
    client,            \* this.client is set (not null)
    collection,        \* this.collection is set
    hasInit,           \* this.hasInit
    createIndexCalls,  \* the createIndex calls issued to the storage, in order
    indexes,           \* the indexes the collection has
    docs,              \* the documents of the collection
    now,               \* the clock, new Date().getTime()
    calls,             \* the operations in progress, per slot
    cleanupTimer,      \* the adapter's cleanupTimer: "unset", "set" or "cleared"
    failed             \* the slots of the storage calls that failed, in order

vars == <<config, client, collection, hasInit, createIndexCalls, indexes, docs, now, calls,
          cleanupTimer, failed>>

EmptyList == [p \in Payloads |-> 0]

\* a call: the operation and its arguments, where its code stands (pc), the
\* clock value and expiry stamp of its pending storage call (time, msTtl), what
\* it returned (err, data of get, count of length, list of all), and the
\* matchedCount / deletedCount of the storage's reply, which the code drops;
\* for a call made through the adapter, how often its callback was invoked
\* (cb) and with which error and whether with a result the last time
IdleCall ==
    [op |-> "none", sid |-> "", session |-> "", pc |-> "idle",
     time |-> 0, msTtl |-> 0, err |-> NoError, data |-> Null, count |-> 0,
     list |-> EmptyList, affected |-> 0,
     cb |-> 0, cbErr |-> NoError, cbResult |-> FALSE]

\* the configs tried.  cleanupStrategy, ttlMs and prefix steer separate parts
\* of the code (the setup sequence, the expiry stamp, the key), so the complete
\* configs cover every value and every pair of values of the three, and every
\* way of leaving out required fields is tried with the defaults
CompleteConfigs ==
    {[client |-> TRUE, dbName |-> TRUE, collection |-> TRUE,
      cleanupStrategy |-> t[1], ttlMs |-> t[2], prefix |-> t[3]] :
        t \in {<<"unset", 0, "">>, <<"unset", 1000, "p:">>,
               <<"native", 0, "p:">>, <<"native", 1000, "">>,
               <<"interval", 0, "">>, <<"interval", 1000, "p:">>}}

IncompleteConfigs ==
    {cfg \in [client : BOOLEAN, dbName : BOOLEAN, collection : BOOLEAN,
              cleanupStrategy : {"unset"}, ttlMs : {1000}, prefix : {""}] :
        ~(cfg.client /\ cfg.dbName /\ cfg.collection)}

Configs == CompleteConfigs \cup IncompleteConfigs

ValidConfig == config.client /\ config.dbName /\ config.collection

\* ---------------------------------------------------------- pure functions

\* date-fns millisecondsToSeconds: whole seconds, fraction dropped
millisecondsToSeconds(ms) == ms \div MsPerSecond

\* faulty variant of getSid: the key without the prefix
getSidRaw(sid) == sid

getSid(sid) == config.prefix \o sid

\* faulty variant of NeedsInit: init tests the flag it sets last instead of
\* the client it sets first
NeedsInitByFlag == ~hasInit

\* init's test that the setup has to run: if (!this.client)
NeedsInit == ~client

NativeCleanup ==
    config.cleanupStrategy = "unset" \/ config.cleanupStrategy = "native"

\* faulty variant of ConfigError: the fields tested in the reverse order
ConfigErrorReversed ==
    IF ~config.collection THEN CollectionNotDefined
    ELSE IF ~config.dbName THEN DbNameNotDefined
    ELSE IF ~config.client THEN ClientNotDefined
    ELSE NoError

\* the error init throws for the config, NoError when it is complete
ConfigError ==
    IF ~config.client THEN ClientNotDefined
    ELSE IF ~config.dbName THEN DbNameNotDefined
    ELSE IF ~config.collection THEN CollectionNotDefined
    ELSE NoError

\* faulty variant of GetFilter: $gte in place of $gt
GetFilterGte(d, formattedSid, time) ==
    d.expiresMs >= time /\ d.sessionId = formattedSid

\* the filter of findOne in get
GetFilter(d, formattedSid, time) ==
    d.expiresMs > time /\ d.sessionId = formattedSid

\* faulty variant of LiveFilter: $gte in place of $gt
LiveFilterGte(d, time) == d.expiresMs >= time

\* faulty variant of LiveFilter: no filter on expiresMs
LiveFilterNone(d, time) == TRUE

\* the filter of find in all and of countDocuments in length
LiveFilter(d, time) == d.expiresMs > time

\* faulty variant of ExpiredFilter: $lte in place of $lt
ExpiredFilterLte(d, time) == d.expiresMs <= time

\* the filter of deleteMany in removeExpiredSessions
ExpiredFilter(d, time) == d.expiresMs < time

\* faulty variant of SidFilter: the empty filter, which matches any document
SidFilterAny(d, formattedSid) == TRUE

\* the filter of updateOne in set and of deleteOne in destroy
SidFilter(d, formattedSid) == d.sessionId = formattedSid

\* faulty variant of MsTtl: the clock reading without the ttl
MsTtlNoTtl(time) == time

\* the expiry stamp set computes: new Date().getTime() + this.config.ttlMs
MsTtl(time) == time + config.ttlMs

\* the $set document of updateOne in set
SetDoc(formattedSid, session, msTtl, updatedAt) ==
    [sessionId |-> formattedSid, data |-> session, expiresMs |-> msTtl,
     updatedAt |-> updatedAt]

\* faulty variant of UpdateOneUpsert: the update leaves expiresMs of a record
\* it finds as it was
UpdateOneKeepExpiry(D, formattedSid, doc) ==
    LET match == {d \in D : d.sessionId = formattedSid}
    IN  IF match = {} THEN {D \cup {doc}}
        ELSE {(D \ {d}) \cup {[doc EXCEPT !.expiresMs = d.expiresMs]} : d \in match}

\* faulty variant of UpdateOneUpsert: an insert in place of the upsert
InsertOne(D, formattedSid, doc) == {D \cup {doc}}

\* updateOne(filter, {$set: doc}, {upsert: true}) on the documents D: the
\* possible outcomes (one per document the filter could pick first)
UpdateOneUpsert(D, formattedSid, doc) ==
    LET match == {d \in D : SidFilter(d, formattedSid)}
    IN  IF match = {} THEN {D \cup {doc}}
        ELSE {(D \ {d}) \cup {doc} : d \in match}

\* faulty variant of DeleteOne: a filter that matches no document
DeleteNone(D, formattedSid) == {D}

\* deleteOne(filter): the possible outcomes
DeleteOne(D, formattedSid) ==
    LET match == {d \in D : SidFilter(d, formattedSid)}
    IN  IF match = {} THEN {D} ELSE {D \ {d} : d \in match}

\* faulty variant of DeleteManyAll: only the expired documents are removed
DeleteManyExpired(D) == {d \in D : d.expiresMs >= now}

\* deleteMany({}) of clear: what is left of the documents D
DeleteManyAll(D) == {}

\* results.map((result) => result.data), order left out: payload -> count
MapData(R) == [p \in Payloads |-> Cardinality({d \in R : d.data = p})]

\* ------------------------------------------------------------------- Init

Init ==
    /\ config \in Configs
    /\ client = FALSE
    /\ collection = FALSE
    /\ hasInit = FALSE
    /\ createIndexCalls = <<>>
    /\ indexes = {}
    /\ docs = {}
    /\ now = 0
    /\ calls = [c \in Slots |-> IdleCall]
    /\ cleanupTimer = "unset"
    /\ failed = <<>>

\* ---------------------------------------------------------------- actions

\* the code of an operation after its await of init(): touch goes on to call
\* set; the others read the clock where their code does and issue their call
\* to the collection
AfterInit(r) ==
    IF r.op = "touch" /\ r.pc # "touch"
    THEN [r EXCEPT !.pc = "touch"]
    ELSE [r EXCEPT !.pc = "data",
                   !.time = IF r.op \in {"destroy", "clear"} THEN 0 ELSE now,
                   !.msTtl = IF r.op \in WriteOps THEN MsTtl(now) ELSE 0]

\* init() up to its first await, run by the call of slot c whose record is r:
\* it returns at once when the client is set, throws on an incomplete config,
\* and otherwise binds client and collection and issues the first createIndex
EnterInit(c, r) ==
    IF ~NeedsInit
    THEN /\ calls' = [calls EXCEPT ![c] = AfterInit(r)]
         /\ UNCHANGED <<client, collection, createIndexCalls>>
    ELSE IF ConfigError # NoError
    THEN /\ calls' = [calls EXCEPT ![c] = [r EXCEPT !.pc = "done", !.err = ConfigError]]
         /\ UNCHANGED <<client, collection, createIndexCalls>>
    ELSE /\ client' = TRUE
         /\ collection' = TRUE
         /\ createIndexCalls' = Append(createIndexCalls, SessionIdIdx)
         /\ calls' = [calls EXCEPT ![c] = [r EXCEPT !.pc = "idx1"]]

\* an operation is called: its code up to its first await of a storage call
\* (the slots are interchangeable: a new call takes the lowest free one)
Start(c, op, sid, session) ==
    /\ calls[c].pc = "idle"
    /\ \A b \in Calls : b < c => calls[b].pc # "idle"
    /\ EnterInit(c, [IdleCall EXCEPT !.op = op, !.sid = sid, !.session = session])
    /\ UNCHANGED <<config, cleanupTimer, failed, hasInit, indexes, docs, now>>

StartSid(c) == \E op \in SidOps, sid \in Ids : Start(c, op, sid, "")

StartWrite(c) ==
    \E op \in WriteOps, sid \in Ids, session \in Payloads : Start(c, op, sid, session)

StartPlain(c) == \E op \in PlainOps : Start(c, op, "", "")

\* the first createIndex completes; init issues the second
CreateIndex1(c) ==
    /\ calls[c].pc = "idx1"
    /\ indexes' = indexes \cup {SessionIdIdx}
    /\ createIndexCalls' = Append(createIndexCalls, SessionIdExpiresIdx)
    /\ calls' = [calls EXCEPT ![c].pc = "idx2"]
    /\ UNCHANGED <<config, cleanupTimer, failed, client, collection, hasInit, docs, now>>

\* the second createIndex completes; init issues the third under the native
\* strategy; under the interval strategy it is finished and the operation
\* that awaited it goes on
CreateIndex2(c) ==
    /\ calls[c].pc = "idx2"
    /\ indexes' = indexes \cup {SessionIdExpiresIdx}
    /\ IF NativeCleanup
       THEN /\ createIndexCalls' = Append(createIndexCalls, UpdatedAtTtlIdx)
            /\ calls' = [calls EXCEPT ![c].pc = "idx3"]
            /\ UNCHANGED hasInit
       ELSE /\ hasInit' = TRUE
            /\ calls' = [calls EXCEPT ![c] = AfterInit(calls[c])]
            /\ UNCHANGED createIndexCalls
    /\ UNCHANGED <<config, cleanupTimer, failed, client, collection, docs, now>>

\* the third createIndex completes; init is finished and the operation that
\* awaited it goes on
CreateIndex3(c) ==
    /\ calls[c].pc = "idx3"
    /\ indexes' = indexes \cup {UpdatedAtTtlIdx}
    /\ hasInit' = TRUE
    /\ calls' = [calls EXCEPT ![c] = AfterInit(calls[c])]
    /\ UNCHANGED <<config, cleanupTimer, failed, client, collection, createIndexCalls, docs, now>>

\* touch, past its own await of init(), calls set(), which runs init() again
TouchCallsSet(c) ==
    /\ calls[c].pc = "touch"
    /\ EnterInit(c, calls[c])
    /\ UNCHANGED <<config, cleanupTimer, failed, hasInit, indexes, docs, now>>

\* findOne of get is served and get returns
ExecGet(c) ==
    /\ calls[c].pc = "data"
    /\ calls[c].op = "get"
    /\ LET match == {d \in docs : GetFilter(d, getSid(calls[c].sid), calls[c].time)}
       IN  \/ /\ match = {}
              /\ calls' = [calls EXCEPT ![c].pc = "done", ![c].time = 0, ![c].msTtl = 0, ![c].data = Null]
           \/ \E resp \in match :
                calls' = [calls EXCEPT ![c].pc = "done", ![c].time = 0, ![c].msTtl = 0, ![c].data = resp.data]
    /\ UNCHANGED <<config, cleanupTimer, failed, client, collection, hasInit, createIndexCalls, indexes, docs, now>>

\* updateOne of set (called directly or by touch) is served and set returns
ExecSet(c) ==
    /\ calls[c].pc = "data"
    /\ calls[c].op \in WriteOps
    /\ docs' \in UpdateOneUpsert(docs, getSid(calls[c].sid),
                    SetDoc(getSid(calls[c].sid), calls[c].session,
                           calls[c].msTtl, calls[c].time))
    /\ calls' = [calls EXCEPT ![c].pc = "done", ![c].time = 0, ![c].msTtl = 0,
                    ![c].affected =
                        IF \E d \in docs : SidFilter(d, getSid(calls[c].sid))
                        THEN 1 ELSE 0]
    /\ UNCHANGED <<config, cleanupTimer, failed, client, collection, hasInit, createIndexCalls, indexes, now>>

\* deleteOne of destroy is served and destroy returns
ExecDestroy(c) ==
    /\ calls[c].pc = "data"
    /\ calls[c].op = "destroy"
    /\ docs' \in DeleteOne(docs, getSid(calls[c].sid))
    /\ calls' = [calls EXCEPT ![c].pc = "done", ![c].time = 0, ![c].msTtl = 0,
                    ![c].affected = Cardinality(docs) - Cardinality(docs')]
    /\ UNCHANGED <<config, cleanupTimer, failed, client, collection, hasInit, createIndexCalls, indexes, now>>

\* find of all is served and all returns the payloads
ExecAll(c) ==
    /\ calls[c].pc = "data"
    /\ calls[c].op = "all"
    /\ calls' = [calls EXCEPT ![c].pc = "done", ![c].time = 0, ![c].msTtl = 0,
                    ![c].list = MapData({d \in docs : LiveFilter(d, calls[c].time)})]
    /\ UNCHANGED <<config, cleanupTimer, failed, client, collection, hasInit, createIndexCalls, indexes, docs, now>>

\* countDocuments of length is served and length returns the count
ExecLength(c) ==
    /\ calls[c].pc = "data"
    /\ calls[c].op = "length"
    /\ calls' = [calls EXCEPT ![c].pc = "done", ![c].time = 0, ![c].msTtl = 0,
                    ![c].count = Cardinality({d \in docs : LiveFilter(d, calls[c].time)})]
    /\ UNCHANGED <<config, cleanupTimer, failed, client, collection, hasInit, createIndexCalls, indexes, docs, now>>

\* deleteMany({}) of clear is served and clear returns
ExecClear(c) ==
    /\ calls[c].pc = "data"
    /\ calls[c].op = "clear"
    /\ docs' = DeleteManyAll(docs)
    /\ calls' = [calls EXCEPT ![c].pc = "done", ![c].time = 0, ![c].msTtl = 0,
                    ![c].affected = Cardinality(docs) - Cardinality(docs')]
    /\ UNCHANGED <<config, cleanupTimer, failed, client, collection, hasInit, createIndexCalls, indexes, now>>

\* deleteMany of removeExpiredSessions is served and the operation returns
ExecRemoveExpired(c) ==
    /\ calls[c].pc = "data"
    /\ calls[c].op = "removeExpiredSessions"
    /\ docs' = {d \in docs : ~ExpiredFilter(d, calls[c].time)}
    /\ calls' = [calls EXCEPT ![c].pc = "done", ![c].time = 0, ![c].msTtl = 0,
                    ![c].affected = Cardinality(docs) - Cardinality(docs')]
    /\ UNCHANGED <<config, cleanupTimer, failed, client, collection, hasInit, createIndexCalls, indexes, now>>

\* the caller has taken the result; the slot is free for the next call
Return(c) ==
    /\ calls[c].pc = "done"
    /\ calls' = [calls EXCEPT ![c] = IdleCall]
    /\ UNCHANGED <<config, cleanupTimer, failed, client, collection, hasInit, createIndexCalls, indexes, docs, now>>

\* the clock advances
Tick ==
    /\ now + TickMs <= MaxTicks * TickMs
    /\ now' = now + TickMs
    /\ UNCHANGED <<config, cleanupTimer, failed, client, collection, hasInit, createIndexCalls, indexes, docs, calls>>

\* the storage's TTL reaper, active once updated_at_ttl_idx exists: it removes
\* a document whose updatedAt plus expireAfterSeconds has elapsed
Reaper ==
    /\ UpdatedAtTtlIdx \in indexes
    /\ \E d \in docs :
        /\ d.updatedAt + millisecondsToSeconds(config.ttlMs) * MsPerSecond <= now
        /\ docs' = docs \ {d}
    /\ UNCHANGED <<config, cleanupTimer, failed, client, collection, hasInit, createIndexCalls, indexes, now, calls>>

Next ==
    \/ \E c \in Calls : StartSid(c)
    \/ \E c \in Calls : StartWrite(c)
    \/ \E c \in Calls : StartPlain(c)
    \/ \E c \in Calls : CreateIndex1(c)
    \/ \E c \in Calls : CreateIndex2(c)
    \/ \E c \in Calls : CreateIndex3(c)
    \/ \E c \in Calls : TouchCallsSet(c)
    \/ \E c \in Calls : ExecGet(c)
    \/ \E c \in Calls : ExecSet(c)
    \/ \E c \in Calls : ExecDestroy(c)
    \/ \E c \in Calls : ExecAll(c)
    \/ \E c \in Calls : ExecLength(c)
    \/ \E c \in Calls : ExecClear(c)
    \/ \E c \in Calls : ExecRemoveExpired(c)
    \/ \E c \in Calls : Return(c)
    \/ Tick
    \/ Reaper

Spec == Init /\ [][Next]_vars

\* ------------------------------------------------- the store (the adapter)

\* faulty variant of SweepCatch: no catch around the sweep, the rejection
\* escapes the timer's callback and ends the process and its timer
SweepRethrow(timer) == "dead"

\* catch (e) { /* ignore */ } of the timer's callback: the timer as it was
SweepCatch(timer) == timer

\* the MongoStore constructor: the engine as constructed, and the cleanup
\* timer set when the strategy is interval
InitStore ==
    /\ config \in Configs
    /\ client = FALSE
    /\ collection = FALSE
    /\ hasInit = FALSE
    /\ createIndexCalls = <<>>
    /\ indexes = {}
    /\ docs = {}
    /\ now = 0
    /\ calls = [c \in Slots |-> IdleCall]
    /\ cleanupTimer = IF config.cleanupStrategy = "interval" THEN "set" ELSE "unset"
    /\ failed = <<>>

\* the storage fails a createIndex of init: init throws, and the operation
\* that awaited it fails with the storage's error
CreateIndexFails(c) ==
    /\ Len(failed) < MaxFailures
    /\ calls[c].pc \in {"idx1", "idx2", "idx3"}
    /\ failed' = Append(failed, c)
    /\ calls' = [calls EXCEPT ![c].pc = "done", ![c].err = StorageError]
    /\ UNCHANGED <<config, cleanupTimer, client, collection, hasInit, createIndexCalls, indexes, docs, now>>

\* the storage fails the data call of an operation: the operation fails with
\* the storage's error
DataCallFails(c) ==
    /\ Len(failed) < MaxFailures
    /\ calls[c].pc = "data"
    /\ failed' = Append(failed, c)
    /\ calls' = [calls EXCEPT ![c].pc = "done", ![c].time = 0, ![c].msTtl = 0,
                    ![c].err = StorageError]
    /\ UNCHANGED <<config, cleanupTimer, client, collection, hasInit, createIndexCalls, indexes, docs, now>>

\* the cleanup timer fires: its callback calls removeExpiredSessions (one
\* sweep at a time: the next firing modelled is the one after it has ended)
TimerFires ==
    /\ cleanupTimer = "set"
    /\ calls[SweepSlot].pc = "idle"
    /\ EnterInit(SweepSlot, [IdleCall EXCEPT !.op = "removeExpiredSessions"])
    /\ UNCHANGED <<config, cleanupTimer, failed, hasInit, indexes, docs, now>>

\* the sweep's removeExpiredSessions has settled: the timer's callback ends,
\* through its catch when the call failed
SweepEnds ==
    /\ calls[SweepSlot].pc = "done"
    /\ cleanupTimer' = IF calls[SweepSlot].err = NoError
                       THEN cleanupTimer ELSE SweepCatch(cleanupTimer)
    /\ calls' = [calls EXCEPT ![SweepSlot] = IdleCall]
    /\ UNCHANGED <<config, failed, client, collection, hasInit, createIndexCalls, indexes, docs, now>>

\* the owner of the store cancels the timer: clearInterval(store.cleanupTimer)
ClearTimer ==
    /\ cleanupTimer = "set"
    /\ cleanupTimer' = "cleared"
    /\ UNCHANGED <<config, failed, client, collection, hasInit, createIndexCalls, indexes, docs, now, calls>>

\* the core operation of an adapter method has succeeded: the handler given to
\* then invokes the callback, with the result for get, all and length; the
\* callback returns or throws
ThenCallback(c) ==
    /\ calls[c].pc = "done"
    /\ calls[c].err = NoError
    /\ \E throws \in BOOLEAN :
        calls' = [calls EXCEPT ![c].cb = @ + 1, ![c].cbErr = NoError,
                    ![c].cbResult = calls[c].op \in {"get", "all", "length"},
                    ![c].pc = IF throws THEN "threw" ELSE "settled"]
    /\ UNCHANGED <<config, cleanupTimer, failed, client, collection, hasInit, createIndexCalls, indexes, docs, now>>

\* catch(callback) of an adapter method: the callback is invoked with the
\* rejection of the core operation, or with what was thrown in the handler of
\* then
CatchCallback(c) ==
    /\ \/ calls[c].pc = "done" /\ calls[c].err # NoError
       \/ calls[c].pc = "threw"
    /\ calls' = [calls EXCEPT ![c].cb = @ + 1,
                    ![c].cbErr = IF calls[c].pc = "threw" THEN CallbackThrew
                                 ELSE calls[c].err,
                    ![c].cbResult = FALSE,
                    ![c].pc = "settled"]
    /\ UNCHANGED <<config, cleanupTimer, failed, client, collection, hasInit, createIndexCalls, indexes, docs, now>>

\* the adapter method's promise chain has ended; the slot is free again
Release(c) ==
    /\ calls[c].pc = "settled"
    /\ calls' = [calls EXCEPT ![c] = IdleCall]
    /\ UNCHANGED <<config, cleanupTimer, failed, client, collection, hasInit, createIndexCalls, indexes, docs, now>>

\* the store at work, its timer never cancelled
NextStoreRun ==
    \/ \E c \in StoreCallers : StartSid(c)
    \/ \E c \in StoreCallers : StartWrite(c)
    \/ \E c \in StoreCallers : StartPlain(c)
    \/ \E c \in StoreSlots : CreateIndex1(c)
    \/ \E c \in StoreSlots : CreateIndex2(c)
    \/ \E c \in StoreSlots : CreateIndex3(c)
    \/ \E c \in StoreSlots : CreateIndexFails(c)
    \/ \E c \in StoreCallers : TouchCallsSet(c)
    \/ \E c \in StoreCallers : ExecGet(c)
    \/ \E c \in StoreCallers : ExecSet(c)
    \/ \E c \in StoreCallers : ExecDestroy(c)
    \/ \E c \in StoreCallers : ExecAll(c)
    \/ \E c \in StoreCallers : ExecLength(c)
    \/ \E c \in StoreCallers : ExecClear(c)
    \/ \E c \in StoreSlots : ExecRemoveExpired(c)
    \/ \E c \in StoreSlots : DataCallFails(c)
    \/ \E c \in StoreCallers : ThenCallback(c)
    \/ \E c \in StoreCallers : CatchCallback(c)
    \/ \E c \in StoreCallers : Release(c)
    \/ TimerFires
    \/ SweepEnds
    \/ Tick
    \/ Reaper

NextStore == NextStoreRun \/ ClearTimer

SpecStore == InitStore /\ [][NextStore]_vars

\* ------------------------------------------------------------ properties

\* call c's storage call is served in this step and the operation op returns
Served(c, op) ==
    /\ calls[c].pc = "data"
    /\ calls[c].op = op
    /\ calls'[c].pc = "done"

\* the documents of D stored under the key of the caller's id
Stored(D, sid) == {d \in D : d.sessionId = config.prefix \o sid}

TypeOK ==
    /\ config \in Configs
    /\ client \in BOOLEAN
    /\ collection = client
    /\ hasInit \in BOOLEAN
    /\ now \in 0..(MaxTicks * TickMs)
    /\ indexes \subseteq {SessionIdIdx, SessionIdExpiresIdx, UpdatedAtTtlIdx}

\* C1: with a complete config, however many operations are started while the
\* first initialization is in flight and after it, no index is created twice,
\* and once the initialization has completed the number of createIndex calls
\* is the number of indexes of the setup sequence: 3 when the strategy is
\* native or unset, 2 when it is interval.
C1_IndexesCreatedOnce ==
    ValidConfig =>
        /\ \A i, j \in DOMAIN createIndexCalls :
                i # j => createIndexCalls[i] # createIndexCalls[j]
        /\ hasInit =>
                Len(createIndexCalls) =
                    IF config.cleanupStrategy = "interval" THEN 2 ELSE 3

\* C1 witness: the third createIndex of the one setup sequence is pending
\* while another operation, started before the initialization completed, has
\* already gone on to its storage call.
C1_Witness ==
    /\ ValidConfig
    /\ ~hasInit
    /\ Len(createIndexCalls) = 3
    /\ \E c, b \in Calls :
        /\ calls[c].pc = "idx3"
        /\ calls[b].pc \in {"data", "done"}

\* C2: no operation has its data call pending at the storage before the
\* initialization has completed (hasInit is set after the last createIndex).
C2_DataCallAwaitsInit ==
    \A c \in Calls : calls[c].pc = "data" => hasInit

\* C3: get of an id whose record was written at clock time updatedAt with
\* ttlMs = T returns the record's payload when get's clock reading is below
\* updatedAt + T and null when it is at or above it; get of an id with no
\* record returns null; in none of these cases does get fail.
C3_GetLiveUntilTtl ==
    [][\A c \in Calls : Served(c, "get") =>
            /\ calls'[c].err = NoError
            /\ Stored(docs, calls[c].sid) = {} => calls'[c].data = Null
            /\ \A d \in Stored(docs, calls[c].sid) :
                /\ calls[c].time < d.updatedAt + config.ttlMs
                        => calls'[c].data = d.data
                /\ calls[c].time >= d.updatedAt + config.ttlMs
                        => calls'[c].data = Null]_vars

\* C3 witness: with ttlMs = 1000 the record of "abc" written at time 0 is
\* still stored at time 1000; an earlier get returned its payload and the get
\* after the tick returned null.
C3_Witness ==
    /\ config.ttlMs = 1000
    /\ now = 1000
    /\ \E d \in Stored(docs, "abc") :
        /\ d.updatedAt = 0
        /\ calls[1].pc = "done" /\ calls[1].op = "get" /\ calls[1].sid = "abc"
        /\ calls[1].data = d.data
        /\ calls[2].pc = "done" /\ calls[2].op = "get" /\ calls[2].sid = "abc"
        /\ calls[2].data = Null

\* C4: removeExpiredSessions with clock reading t removes the records with
\* expiresMs < t and leaves every record with expiresMs >= t, and a get with
\* clock reading t of a record with expiresMs = t returns null.
C4_SweepIsStrict ==
    [][\A c \in Calls :
        /\ Served(c, "removeExpiredSessions") =>
            /\ docs' \subseteq docs
            /\ \A d \in docs : d \in docs' <=> d.expiresMs >= calls[c].time
        /\ Served(c, "get") =>
            \A d \in Stored(docs, calls[c].sid) :
                d.expiresMs = calls[c].time => calls'[c].data = Null]_vars

\* C4 witness: a sweep has removed one record and left a record whose
\* expiresMs is the present clock value, of which a get has returned null.
C4_Witness ==
    \E c, b \in Calls, d \in docs :
        /\ calls[c].pc = "done" /\ calls[c].op = "removeExpiredSessions"
        /\ calls[c].affected = 1
        /\ d.expiresMs = now
        /\ calls[b].pc = "done" /\ calls[b].op = "get"
        /\ d \in Stored(docs, calls[b].sid)
        /\ calls[b].data = Null

\* C5: the collection never holds two records with one sessionId, and when a
\* set or touch is served the collection holds exactly one record for its id,
\* carrying the payload of that call and expiresMs = the call's clock reading
\* + ttlMs.
C5_UpsertOneRecordPerId ==
    [][/\ \A d1, d2 \in docs' : d1.sessionId = d2.sessionId => d1 = d2
       /\ \A c \in Calls, op \in WriteOps : Served(c, op) =>
            /\ Cardinality(Stored(docs', calls[c].sid)) = 1
            /\ \A d \in Stored(docs', calls[c].sid) :
                /\ d.data = calls[c].session
                /\ d.expiresMs = calls[c].time + config.ttlMs]_vars

\* C5 witness: two sets of one id with different payloads have returned, the
\* second having replaced the record of the first after the clock advanced;
\* one record is stored, with the second payload and the later expiresMs.
C5_Witness ==
    /\ calls[1].pc = "done" /\ calls[1].op = "set" /\ calls[1].affected = 0
    /\ calls[2].pc = "done" /\ calls[2].op = "set" /\ calls[2].affected = 1
    /\ calls[1].sid = calls[2].sid
    /\ calls[1].session # calls[2].session
    /\ Cardinality(Stored(docs, calls[2].sid)) = 1
    /\ \A d \in Stored(docs, calls[2].sid) :
        /\ d.data = calls[2].session
        /\ d.expiresMs = 1000 + config.ttlMs

\* C6: every stored record has sessionId = prefix + an id a caller supplied;
\* a set or touch of id stores its payload under prefix + id, and a get of id
\* returns only the payload stored under prefix + id.  With prefix "p:", the
\* record of id "abc" is stored under "p:abc" and nothing is stored under
\* "abc".
C6_KeyIsPrefixPlusId ==
    [][/\ \A d \in docs' : \E id \in Ids : d.sessionId = config.prefix \o id
       /\ config.prefix = "p:" => \A d \in docs' : d.sessionId # "abc"
       /\ \A c \in Calls, op \in WriteOps : Served(c, op) =>
            /\ \E d \in docs' :
                /\ d.sessionId = config.prefix \o calls[c].sid
                /\ d.data = calls[c].session
            /\ (config.prefix = "p:" /\ calls[c].sid = "abc") =>
                    \E d \in docs' : d.sessionId = "p:abc"
       /\ \A c \in Calls : (Served(c, "get") /\ calls'[c].data # Null) =>
            \E d \in docs :
                /\ d.sessionId = config.prefix \o calls[c].sid
                /\ d.data = calls'[c].data]_vars

\* C6 witness: with prefix "p:", set("abc", p) and then get("abc") have
\* returned, get with p; the record is stored under "p:abc".
C6_Witness ==
    /\ config.prefix = "p:"
    /\ calls[1].pc = "done" /\ calls[1].op = "set" /\ calls[1].sid = "abc"
    /\ calls[2].pc = "done" /\ calls[2].op = "get" /\ calls[2].sid = "abc"
    /\ calls[2].data = calls[1].session
    /\ \E d \in docs : d.sessionId = "p:abc" /\ d.data = calls[1].session
    /\ \A d \in docs : d.sessionId # "abc"

\* C7: with ttlMs = 0, a get whose clock reading is not before the write of
\* the stored record of its id returns null, and a length whose clock reading
\* is not before the write of any stored record returns 0.
C7_ZeroTtlIsDead ==
    [][config.ttlMs = 0 => \A c \in Calls :
        /\ (/\ Served(c, "get")
            /\ \A d \in Stored(docs, calls[c].sid) : d.updatedAt <= calls[c].time)
                => calls'[c].data = Null
        /\ (/\ Served(c, "length")
            /\ \A d \in docs : d.updatedAt <= calls[c].time)
                => calls'[c].count = 0]_vars

\* C7 witness: with ttlMs = 0, get of a stored id has returned null and
\* length has returned 0 while the record is in the collection.
C7_Witness ==
    /\ config.ttlMs = 0
    /\ calls[1].pc = "done" /\ calls[1].op = "get" /\ calls[1].data = Null
    /\ Stored(docs, calls[1].sid) # {}
    /\ calls[2].pc = "done" /\ calls[2].op = "length" /\ calls[2].count = 0

\* C8: length with clock reading t returns the number of stored records with
\* expiresMs > t, and all with clock reading t returns the payloads of exactly
\* those records, each as often as a live record carries it.
C8_CountAndEnumerateLive ==
    [][\A c \in Calls :
        /\ Served(c, "length") =>
            /\ calls'[c].err = NoError
            /\ calls'[c].count =
                Cardinality(docs) - Cardinality({d \in docs : d.expiresMs <= calls[c].time})
        /\ Served(c, "all") =>
            /\ calls'[c].err = NoError
            /\ \A p \in Payloads :
                calls'[c].list[p] =
                    Cardinality({d \in docs : d.data = p /\ ~(d.expiresMs <= calls[c].time)})]_vars

\* C8 witness: two records are stored, one live and one expired; length has
\* returned 1 and all has returned the one payload of the live record.
C8_Witness ==
    /\ Cardinality(docs) = 2
    /\ \E live, dead \in docs :
        /\ live.expiresMs > now
        /\ dead.expiresMs <= now
        /\ live.data # dead.data
        /\ calls[1].pc = "done" /\ calls[1].op = "length" /\ calls[1].count = 1
        /\ calls[2].pc = "done" /\ calls[2].op = "all"
        /\ calls[2].list[live.data] = 1
        /\ calls[2].list[dead.data] = 0

\* C9: when clear is served the collection is left with no record, live or
\* expired, and on the empty collection length returns 0 and get returns
\* null for every id.
C9_ClearRemovesAll ==
    [][\A c \in Calls :
        /\ Served(c, "clear") => (docs' = {} /\ calls'[c].err = NoError)
        /\ (Served(c, "length") /\ docs = {}) => calls'[c].count = 0
        /\ (Served(c, "get") /\ docs = {}) => calls'[c].data = Null]_vars

\* C9 witness: clear has removed two records, one live and one expired at
\* that time, and the length after it has returned 0.
C9_Witness ==
    /\ docs = {}
    /\ now = 1000
    /\ config.ttlMs = 1000
    /\ calls[1].pc = "done" /\ calls[1].op = "clear" /\ calls[1].affected = 2
    /\ calls[2].pc = "done" /\ calls[2].op = "length" /\ calls[2].count = 0

\* C10: when destroy(id) is served no record is left under prefix + id, at
\* most one record has been removed, destroy does not fail whether or not
\* there was one, and a record under prefix + id appears again only by a set
\* or touch of that id (until then get finds none and returns null).
C10_DestroyRemovesRecord ==
    [][/\ \A c \in Calls : Served(c, "destroy") =>
            /\ calls'[c].err = NoError
            /\ Stored(docs', calls[c].sid) = {}
            /\ docs' \subseteq docs
            /\ Cardinality(docs) - Cardinality(docs') \in {0, 1}
            /\ Cardinality(docs) - Cardinality(docs') = 1
                    <=> Stored(docs, calls[c].sid) # {}
       /\ \A id \in Ids :
            (Stored(docs, id) = {} /\ Stored(docs', id) # {}) =>
                \E c \in Calls, op \in WriteOps :
                    Served(c, op) /\ calls[c].sid = id
       /\ \A c \in Calls :
            (Served(c, "get") /\ Stored(docs, calls[c].sid) = {})
                => calls'[c].data = Null]_vars

\* C10 witness: destroy of a stored id has removed its record and the get of
\* that id after it has returned null; the other id's live record is kept.
C10_Witness ==
    /\ calls[1].pc = "done" /\ calls[1].op = "destroy" /\ calls[1].affected = 1
    /\ calls[2].pc = "done" /\ calls[2].op = "get"
    /\ calls[2].sid = calls[1].sid /\ calls[2].data = Null
    /\ Stored(docs, calls[1].sid) = {}
    /\ \E d \in docs : d.expiresMs > now

\* what set(sid, session) with clock reading time leaves of the documents D:
\* the record of sid replaced by one with that payload and expiresMs = time +
\* ttlMs, every other record as it was
WrittenBy(D, sid, session, time) ==
    (D \ Stored(D, sid)) \cup
        {[sessionId |-> config.prefix \o sid, data |-> session,
          expiresMs |-> time + config.ttlMs, updatedAt |-> time]}

\* C11: touch(id, payload) is equivalent to set(id, payload): served from one
\* collection state with one clock reading, either leaves the collection state
\* that set leaves (the payload replaced, expiresMs = clock reading + ttlMs),
\* and a touch of an id with no record creates the record.
C11_TouchIsSet ==
    [][\A c \in Calls :
        /\ \A op \in WriteOps : Served(c, op) =>
            /\ docs' = WrittenBy(docs, calls[c].sid, calls[c].session, calls[c].time)
            /\ calls'[c].err = NoError
        /\ (Served(c, "touch") /\ Stored(docs, calls[c].sid) = {}) =>
            /\ Cardinality(Stored(docs', calls[c].sid)) = 1
            /\ Cardinality(docs') = Cardinality(docs) + 1]_vars

\* C11 witness: a touch of "abc" and a set of "xyz" with one payload and one
\* clock reading have returned, neither having found a record; the two
\* records they created differ in the key only.
C11_Witness ==
    /\ calls[1].pc = "done" /\ calls[1].op = "touch" /\ calls[1].sid = "abc"
    /\ calls[2].pc = "done" /\ calls[2].op = "set" /\ calls[2].sid = "xyz"
    /\ calls[1].affected = 0 /\ calls[2].affected = 0
    /\ calls[1].session = calls[2].session
    /\ \E d \in Stored(docs, "abc"), e \in Stored(docs, "xyz") :
        /\ d.data = calls[1].session /\ e.data = d.data
        /\ d.expiresMs = e.expiresMs /\ d.updatedAt = e.updatedAt
        /\ d.expiresMs = d.updatedAt + config.ttlMs

\* C12: when the config lacks client, dbName or collection, the first
\* operation and every later one fails with the error of the first missing
\* field in the order client, dbName, collection, and no createIndex call and
\* no data call is issued (none is pending, no index and no record exists).
C12_IncompleteConfigFails ==
    ~ValidConfig =>
        /\ createIndexCalls = <<>>
        /\ indexes = {}
        /\ docs = {}
        /\ ~client
        /\ \A c \in Calls :
            /\ calls[c].pc \in {"idle", "done"}
            /\ calls[c].pc = "done" =>
                calls[c].err =
                    IF ~config.client
                    THEN "express-session-mongo: client not defined"
                    ELSE IF ~config.dbName
                    THEN "express-session-mongo: dbName not defined"
                    ELSE "express-session-mongo: collection not defined"

\* C12 witness: the config has a client but neither dbName nor collection; a
\* set and, called after it, a get have both failed with the dbName error.
C12_Witness ==
    /\ config.client /\ ~config.dbName /\ ~config.collection
    /\ calls[1].pc = "done" /\ calls[1].op = "set"
    /\ calls[2].pc = "done" /\ calls[2].op = "get"
    /\ calls[1].err = DbNameNotDefined
    /\ calls[2].err = DbNameNotDefined
    /\ createIndexCalls = <<>>

\* C13: under the interval strategy every firing of the cleanup timer calls
\* removeExpiredSessions, and a failure of one firing is swallowed: the end of
\* a firing, failed or not, changes no caller's call and leaves the timer as
\* it was; the timer stops being set only by the owner cancelling it, and
\* while it is set and no sweep is running the next firing can run.
C13_SweepFailureSwallowed ==
    [][/\ (calls[SweepSlot].pc = "idle" /\ calls'[SweepSlot].pc # "idle") =>
            /\ config.cleanupStrategy = "interval"
            /\ cleanupTimer = "set"
            /\ calls'[SweepSlot].op = "removeExpiredSessions"
       /\ (calls[SweepSlot].pc = "done" /\ calls'[SweepSlot].pc = "idle") =>
            /\ cleanupTimer' = cleanupTimer
            /\ \A c \in Calls : calls'[c] = calls[c]
       /\ (calls[SweepSlot].pc # "done" /\ calls'[SweepSlot].pc = "done"
                /\ calls'[SweepSlot].err # NoError) =>
            /\ cleanupTimer' = cleanupTimer
            /\ \A c \in Calls : calls'[c] = calls[c]
       /\ (cleanupTimer = "set" /\ cleanupTimer' # "set") =>
            /\ cleanupTimer' = "cleared"
            /\ calls' = calls
       /\ (cleanupTimer = "set" /\ calls[SweepSlot].pc = "idle") =>
            ENABLED TimerFires
       /\ (config.cleanupStrategy = "interval" /\ cleanupTimer # "cleared") =>
            cleanupTimer = "set"]_vars

\* C13 witness: the storage failed a call of one firing of the timer; the
\* timer is still set, and a later firing has removed an expired record.
C13_Witness ==
    /\ failed = <<SweepSlot>>
    /\ cleanupTimer = "set"
    /\ calls[SweepSlot].pc = "done"
    /\ calls[SweepSlot].op = "removeExpiredSessions"
    /\ calls[SweepSlot].err = NoError
    /\ calls[SweepSlot].affected = 1

\* a set or touch of id is in progress or has just ended
Writing(id) ==
    \E c \in Slots :
        calls[c].pc # "idle" /\ calls[c].op \in WriteOps /\ calls[c].sid = id

\* the store at work with its timer never cancelled, where the clock goes on,
\* the storage answers every call it was sent and its reaper keeps running,
\* the timer keeps firing, and every callback and handler due is run; the
\* storage fails at most MaxFailures calls
SpecStoreFair ==
    /\ InitStore
    /\ [][NextStoreRun]_vars
    /\ WF_vars(Tick)
    /\ \A id \in Ids :
        WF_vars(Reaper /\ Stored(docs, id) # {} /\ Stored(docs', id) = {})
    /\ WF_vars(TimerFires)
    /\ WF_vars(SweepEnds)
    /\ \A c \in StoreSlots :
        /\ WF_vars(CreateIndex1(c))
        /\ WF_vars(CreateIndex2(c))
        /\ WF_vars(CreateIndex3(c))
        /\ WF_vars(ExecRemoveExpired(c))
    /\ \A c \in StoreCallers :
        /\ WF_vars(TouchCallsSet(c))
        /\ WF_vars(ExecGet(c))
        /\ WF_vars(ExecSet(c))
        /\ WF_vars(ExecDestroy(c))
        /\ WF_vars(ExecAll(c))
        /\ WF_vars(ExecLength(c))
        /\ WF_vars(ExecClear(c))
        /\ WF_vars(ThenCallback(c))
        /\ WF_vars(CatchCallback(c))
        /\ WF_vars(Release(c))

\* C14: a store built through the adapter expires its records by itself under
\* either strategy: exactly one removal mechanism is set up (never the timer
\* and the TTL index together; the timer exactly under interval; once the
\* setup has completed, the TTL index exactly under native or unset), and a
\* stored record that has expired is eventually removed unless its id is
\* written again.
C14_RecordsExpireByThemselves ==
    /\ [](cleanupTimer = "set" <=> config.cleanupStrategy = "interval")
    /\ [](~(cleanupTimer = "set" /\ UpdatedAtTtlIdx \in indexes))
    /\ [](hasInit => (UpdatedAtTtlIdx \in indexes <=> NativeCleanup))
    /\ \A id \in Ids :
        (\E d \in Stored(docs, id) : d.expiresMs < now)
            ~> (Stored(docs, id) = {} \/ Writing(id))

\* C15: on an initialized instance, when a set is served while another set of
\* the same id is in flight or has returned, the collection holds exactly one
\* record of that id and it is the served call's in every field (its payload,
\* its expiresMs, its write time): whichever of the two is served last leaves
\* its own record, never two records and never a mix of the two.
C15_ConcurrentSetsLastWins ==
    [][\A c, b \in Calls :
        (/\ c # b
         /\ hasInit
         /\ Served(c, "set")
         /\ calls[b].op = "set"
         /\ calls[b].pc \in {"data", "done"}
         /\ calls[b].sid = calls[c].sid) =>
            Stored(docs', calls[c].sid) =
                {[sessionId |-> config.prefix \o calls[c].sid,
                  data |-> calls[c].session,
                  expiresMs |-> calls[c].time + config.ttlMs,
                  updatedAt |-> calls[c].time]}]_vars

\* C15 witness: two sets of "abc" with different payloads overlap: the one
\* called at time 0 is still pending while the one called at time 1000 has
\* been served and its record is the only one of "abc".
C15_Witness ==
    /\ hasInit
    /\ calls[1].pc = "data" /\ calls[1].op = "set" /\ calls[1].sid = "abc"
    /\ calls[1].time = 0
    /\ calls[2].pc = "done" /\ calls[2].op = "set" /\ calls[2].sid = "abc"
    /\ calls[1].session # calls[2].session
    /\ Stored(docs, "abc") =
            {[sessionId |-> config.prefix \o "abc", data |-> calls[2].session,
              expiresMs |-> 1000 + config.ttlMs, updatedAt |-> 1000]}

\* C16: each adapter operation called with a callback invokes it exactly once
\* per call: never more than once, and when the call has ended, once, with the
\* core operation's error when that failed, and with no error (and the result
\* for get, all and length) when it succeeded.
C16_CallbackExactlyOnce ==
    \A c \in StoreCallers :
        /\ calls[c].cb <= 1
        /\ calls[c].pc = "settled" =>
            /\ calls[c].cb = 1
            /\ calls[c].cbErr = calls[c].err
            /\ calls[c].cbResult =
                (calls[c].err = NoError /\ calls[c].op \in {"get", "all", "length"})

\* the indexes of the setup sequence of init for the config's strategy
SetupIndexes ==
    IF NativeCleanup
    THEN {SessionIdIdx, SessionIdExpiresIdx, UpdatedAtTtlIdx}
    ELSE {SessionIdIdx, SessionIdExpiresIdx}

\* C17: in every run, runs where a createIndex fails included, a data call
\* is issued only after every index of the setup sequence has been created:
\* when no initialization is in flight (none has started, or the last one has
\* completed or failed), a data call pending at the storage finds every index
\* of the setup sequence.  (Data calls issued while an initialization is in
\* flight are C2's case and are not counted here.)
C17_DataCallFindsIndexes ==
    (\A b \in Slots : calls[b].pc \notin {"idx1", "idx2", "idx3"}) =>
        \A c \in Slots : calls[c].pc = "data" => SetupIndexes \subseteq indexes

\* ------------------------------------------- ttlMs that is no whole second

\* ttlMs below, at and above one second, under the native strategy
TtlConfigs ==
    [client : {TRUE}, dbName : {TRUE}, collection : {TRUE},
     cleanupStrategy : {"native"}, ttlMs : {500, 1000, 1500}, prefix : {""}]

\* the engine as constructed with one of these configs
InitTtl ==
    /\ config \in TtlConfigs
    /\ client = FALSE
    /\ collection = FALSE
    /\ hasInit = FALSE
    /\ createIndexCalls = <<>>
    /\ indexes = {}
    /\ docs = {}
    /\ now = 0
    /\ calls = [c \in Slots |-> IdleCall]
    /\ cleanupTimer = "unset"
    /\ failed = <<>>

SpecTtl == InitTtl /\ [][Next]_vars

\* C18: under the native strategy, for every ttlMs, the storage's reaper
\* removes only dead records: a record that get would still return
\* (expiresMs > now) is never removed by native expiry.
C18_ReaperRemovesOnlyDead ==
    [][Reaper => \A d \in docs \ docs' : d.expiresMs <= now]_vars

\* C19: get, all and length change no record of the collection, and a set,
\* touch or destroy of id A changes no record whose sessionId differs from
\* prefix + A: every other record is present after it exactly when it was
\* before, with the fields it had.
C19_OtherRecordsUnchanged ==
    [][\A c \in Calls :
        /\ \A op \in {"get", "all", "length"} : Served(c, op) => docs' = docs
        /\ \A op \in {"set", "touch", "destroy"} : Served(c, op) =>
            {d \in docs' : d.sessionId # config.prefix \o calls[c].sid} =
                {d \in docs : d.sessionId # config.prefix \o calls[c].sid}]_vars

\* C19 witness: the record of "xyz" written at time 0 is still as written
\* after, at time 1000, a set has replaced the record of "abc" and a length
\* has counted the records.
C19_Witness ==
    /\ now = 1000
    /\ calls[1].pc = "done" /\ calls[1].op = "set" /\ calls[1].sid = "abc"
    /\ calls[1].affected = 1
    /\ calls[2].pc = "done" /\ calls[2].op = "length"
    /\ \E d \in Stored(docs, "xyz") : d.updatedAt = 0
    /\ \E d \in Stored(docs, "abc") : d.updatedAt = 1000

\* ------------------------------- a second instance on the same collection

\* the prefix of the other instance, and the ids and payloads its callers use
OtherPrefix == "q:"
OtherIds == {"abc"}
OtherPayloads == {"d1"}

\* getSid of the other instance
OtherSid(sid) == OtherPrefix \o sid

\* set or touch of the other instance, from its call to its return: its
\* updateOne with its own key, on the collection the two instances share
OtherSet ==
    /\ \E sid \in OtherIds, session \in OtherPayloads :
        docs' \in UpdateOneUpsert(docs, OtherSid(sid),
                    SetDoc(OtherSid(sid), session, MsTtl(now), now))
    /\ UNCHANGED <<config, cleanupTimer, failed, client, collection, hasInit, createIndexCalls, indexes, now, calls>>

\* destroy of the other instance, from its call to its return
OtherDestroy ==
    /\ \E sid \in OtherIds : docs' \in DeleteOne(docs, OtherSid(sid))
    /\ UNCHANGED <<config, cleanupTimer, failed, client, collection, hasInit, createIndexCalls, indexes, now, calls>>

\* an engine with a complete config and the prefix "p:"; the other instance
\* has the same config but for its prefix
InitShared ==
    /\ config \in {cfg \in CompleteConfigs : cfg.prefix = "p:"}
    /\ client = FALSE
    /\ collection = FALSE
    /\ hasInit = FALSE
    /\ createIndexCalls = <<>>
    /\ indexes = {}
    /\ docs = {}
    /\ now = 0
    /\ calls = [c \in Slots |-> IdleCall]
    /\ cleanupTimer = "unset"
    /\ failed = <<>>

NextShared == Next \/ OtherSet \/ OtherDestroy

SpecShared == InitShared /\ [][NextShared]_vars

\* the documents of D but for those under the keys of the other instance
WithoutOthers(D) == {d \in D : \A sid \in OtherIds : d.sessionId # OtherSid(sid)}

\* C20: for two instances on one collection with different prefixes, what
\* get, all and length return through one does not depend on the set, touch
\* and destroy calls made through the other: the other's calls write and
\* remove only records under its own keys, so each result is the one the
\* collection without those records gives.
C20_ReadsIndependentOfOther ==
    [][\A c \in Calls :
        /\ Served(c, "get") =>
            \/ /\ calls'[c].data = Null
               /\ \A d \in WithoutOthers(docs) :
                    ~GetFilter(d, getSid(calls[c].sid), calls[c].time)
            \/ \E d \in WithoutOthers(docs) :
                /\ GetFilter(d, getSid(calls[c].sid), calls[c].time)
                /\ calls'[c].data = d.data
        /\ Served(c, "length") =>
            calls'[c].count =
                Cardinality({d \in WithoutOthers(docs) : LiveFilter(d, calls[c].time)})
        /\ Served(c, "all") =>
            calls'[c].list =
                MapData({d \in WithoutOthers(docs) : LiveFilter(d, calls[c].time)})]_vars
====
